---------------------------- MODULE Spec2Model ----------------------------
(***************************************************************************)
(* article-to-anki: the content-to-card pipeline.                          *)
(*                                                                         *)
(*   SpecParse   the CLOZE/BASIC response parser (split_cards, the loop    *)
(*               at the end of Article.generate_cards)                     *)
(*   SpecFetch   fetching a URL with the fetch cache                       *)
(*               (Article._fetch_from_url_or_cache, fetch_article_text)    *)
(*   SpecRun     one run of main.py or of the legacy articles-to-anki.py:  *)
(*               fetch, generate, export, per article                      *)
(*   SpecCli     consecutive runs of articles_to_anki/cli.py with the      *)
(*               processing ledger                                         *)
(*   SpecExtract the removal of comment sections from a reduced page and   *)
(*               its flattening to text                                    *)
(*   SpecDup     the duplicate filter of the exporter of articles_to_anki  *)
(*   SpecStart   the start of a run: configuration checks, sources         *)
(*                                                                         *)
(* Text is a sequence of characters.  A character is a one-element token:  *)
(* " " and "\n" are the whitespace the code strips and splits on, the      *)
(* other tokens stand for runs of non-blank characters.                    *)
(***************************************************************************)
EXTENDS Integers, Sequences, FiniteSets, TLC

\* ------------------------------------------------------------------ bounds
\* most lines of a generated response
MaxLines == 4
\* most fetches of one behaviour
MaxFetches == 3
\* most cards of one kind in one generated response
MaxCards == 2
\* most runs of the ledger-aware main in one behaviour
MaxRuns == 3
\* most addNote requests that fail in the export of one article
MaxFailures == 1

\* ------------------------------------------------------------- text helpers
NL == "\n"
SP == " "

\* str.isspace on one character
IsSpace(c) == c \in {SP, NL}

\* all sequences over S of length 0..n
SeqsUpTo(S, n) == UNION {[1..k -> S] : k \in 0..n}

RECURSIVE LStrip(_)
LStrip(s) ==
    IF s = <<>> THEN <<>>
    ELSE IF IsSpace(Head(s)) THEN LStrip(Tail(s)) ELSE s

RECURSIVE RStrip(_)
RStrip(s) ==
    IF s = <<>> THEN <<>>
    ELSE IF IsSpace(s[Len(s)]) THEN RStrip(SubSeq(s, 1, Len(s) - 1)) ELSE s

\* str.strip()
Strip(s) == RStrip(LStrip(s))

\* index of the first "\n" of s, 0 when there is none
RECURSIVE FirstNL(_, _)
FirstNL(s, i) ==
    IF i > Len(s) THEN 0
    ELSE IF s[i] = NL THEN i ELSE FirstNL(s, i + 1)

\* str.splitlines(): the lines without their line ends; a final line end
\* opens no empty last line, and "" has no lines
RECURSIVE SplitLines(_)
SplitLines(s) ==
    IF s = <<>> THEN <<>>
    ELSE LET k == FirstNL(s, 1) IN
         IF k = 0 THEN <<s>>
         ELSE <<SubSeq(s, 1, k - 1)>> \o SplitLines(SubSeq(s, k + 1, Len(s)))

\* sep.join(lines)
RECURSIVE Join(_, _)
Join(lines, sep) ==
    IF lines = <<>> THEN <<>>
    ELSE IF Len(lines) = 1 THEN lines[1]
    ELSE lines[1] \o sep \o Join(Tail(lines), sep)

\* s.startswith(p)
StartsWith(s, p) == Len(s) >= Len(p) /\ SubSeq(s, 1, Len(p)) = p

\* ------------------------------------------------------------------- state
VARIABLES
    generated_text,   \* the completion service's response text
    cloze_cards,      \* split_cards: the cloze list
    basic_cards,      \* split_cards: the basic list
    re_cloze,         \* the lists recovered from the re-emitted text
    re_basic,
    pcParse,          \* "input" | "parsed" | "reparsed"
    \* -- fetching (Article._fetch_from_url_or_cache, fetch_article_text)
    variant,          \* "articles" (articles.py) | "legacy" (articles-to-anki.py)
    cache,            \* .article_cache: URL -> file content, NoFile when absent
    article,          \* the Article fetched last: url, file_path, title, text
    call,             \* what the last fetch did
    answers,          \* what the network and the services answered to the last fetch
    origin,           \* URL -> the (title, text) the fetch that wrote its cache entry returned
    nFetch,           \* fetches so far
    \* -- one run of main (main.py with articles.py and export_cards.py, or
    \*    the legacy script articles-to-anki.py)
    to_file,          \* args.to_file
    source_list,      \* the URLs read from the source list file
    idx,              \* position of the loop over the articles
    pcRun,            \* "loop" | "done" | "aborted_fetch" | "aborted_gen" | "aborted_export"
    notes,            \* the addNote requests sent, in order
    posted,           \* per addNote request: whether it failed, and what was printed
    cloze_file,       \* lines of the cloze batch file
    basic_file,       \* lines of the basic batch file
    skipped_articles, \* legacy: the (url, title) pairs skipped
    summary,          \* legacy: the skipped articles printed at the end, None before
    trace,            \* per article taken up: what it was given and what became of it
    \* -- runs of the ledger-aware main (articles_to_anki/cli.py)
    ledger,           \* the persisted (identifier, deck) pairs marked as processed
    deck,             \* args.deck of the current run
    process_all,      \* args.process_all of the current run
    runNo,            \* runs started so far
    cidx,             \* position of the loop over the articles
    pcCli,            \* "idle" | "loop" | "done"
    log,              \* the current run's steps, in order: <<identifier, step>>
    ledgerAtStart,    \* the ledger as the current run found it
    prev,             \* deck and process_all of the run before, None in the first run
    prevDone,         \* the articles the run before exported or skipped as processed
    exportedPairs,    \* the (identifier, deck) pairs whose export has finished, in any run
    \* -- the reduction of a fetched page to its text (comment removal, get_text)
    soup,             \* the reduced document: its top-level elements
    body,             \* the extracted text, None before the extraction
    pcExtract,        \* "parsed" | "extracted"
    \* -- the duplicate filter of the exporter of articles_to_anki
    deck_fronts,      \* deck -> the fronts of the cards exported to it
    candidate,        \* the last export of a card: its settings and what became of it
    nExports,         \* exports of a card so far
    \* -- the start of a run: configuration checks and reading of the sources
    program,          \* "cli" (articles_to_anki/cli.py) | "main" (main.py) | "legacy"
    config,           \* what exists now: api_key, article_dir, urls_file, urls, local_files
    config0,          \* what existed when the run started
    start_to_file,    \* args.to_file
    pcStart,          \* "start" | "checked" | "loop" | "done" | "error"
    model_requests,   \* the requests sent to AnkiConnect, in order, with their replies
    work              \* what was done for articles: "fetch", "completion", "export"

parseVars == <<generated_text, cloze_cards, basic_cards, re_cloze, re_basic, pcParse>>
fetchVars == <<variant, cache, article, call, answers, origin, nFetch>>

runVars == <<to_file, source_list, idx, pcRun, notes, posted, cloze_file, basic_file,
             skipped_articles, summary, trace>>

cliVars == <<ledger, deck, process_all, runNo, cidx, pcCli, log, ledgerAtStart, prev,
             prevDone, exportedPairs>>

extractVars == <<soup, body, pcExtract>>

dupVars == <<deck_fronts, candidate, nExports>>

startVars == <<program, config, config0, start_to_file, pcStart, model_requests, work>>

sideVars == <<extractVars, dupVars, startVars>>

vars == <<parseVars, fetchVars, runVars, cliVars, sideVars>>

\* ================================================================== parser
\* The lines a response is made of.  Tokens: the two marker words in upper
\* and lower case, card text ("x", "y") and blanks.
ResponseLines ==
    { <<>>, <<"CLOZE">>, <<"cloze", "x">>, <<"BASIC">>, <<SP, "basic">>,
      <<"x">>, <<SP, "y", SP>>, <<"y">> }

\* the responses of the completion service, as generate_cards hands them to
\* the loop: content.strip()
Responses == {Strip(Join(ls, <<NL>>)) : ls \in SeqsUpTo(ResponseLines, MaxLines)}

\* str.upper() on one token
UpperTok(c) == IF c = "cloze" THEN "CLOZE" ELSE IF c = "basic" THEN "BASIC" ELSE c

\* str.upper()
Upper(s) == [i \in 1..Len(s) |-> UpperTok(s[i])]

NoSection == "none"

\* the parser's state before the first line
ParseStart == [section |-> NoSection, cloze |-> <<>>, basic |-> <<>>]

\* a marker that keeps the line: the `continue` after a section switch is
\* missing, so the marker line falls through to the append
ParseLineNoContinue(st, rawline) ==
    LET line == Strip(rawline) IN
    IF line = <<>> THEN st
    ELSE LET sec == IF StartsWith(Upper(line), <<"CLOZE">>) THEN "cloze"
                    ELSE IF StartsWith(Upper(line), <<"BASIC">>) THEN "basic"
                    ELSE st.section IN
         IF sec = "cloze" THEN [st EXCEPT !.section = sec, !.cloze = Append(@, line)]
         ELSE IF sec = "basic" THEN [st EXCEPT !.section = sec, !.basic = Append(@, line)]
         ELSE st

\* a marker test without upper(): only the upper-case words switch sections
ParseLineCaseSensitive(st, rawline) ==
    LET line == Strip(rawline) IN
    IF line = <<>> THEN st
    ELSE IF StartsWith(line, <<"CLOZE">>) THEN [st EXCEPT !.section = "cloze"]
    ELSE IF StartsWith(line, <<"BASIC">>) THEN [st EXCEPT !.section = "basic"]
    ELSE IF st.section = "cloze" THEN [st EXCEPT !.cloze = Append(@, line)]
    ELSE IF st.section = "basic" THEN [st EXCEPT !.basic = Append(@, line)]
    ELSE st

\* a marker test by equality instead of startswith: a line that goes on
\* after the marker word is a card line
ParseLineExactMarker(st, rawline) ==
    LET line == Strip(rawline) IN
    IF line = <<>> THEN st
    ELSE IF Upper(line) = <<"CLOZE">> THEN [st EXCEPT !.section = "cloze"]
    ELSE IF Upper(line) = <<"BASIC">> THEN [st EXCEPT !.section = "basic"]
    ELSE IF st.section = "cloze" THEN [st EXCEPT !.cloze = Append(@, line)]
    ELSE IF st.section = "basic" THEN [st EXCEPT !.basic = Append(@, line)]
    ELSE st

\* one turn of the loop over the response lines
ParseLine(st, rawline) ==
    LET line == Strip(rawline) IN
    IF line = <<>> THEN st
    ELSE IF StartsWith(Upper(line), <<"CLOZE">>) THEN [st EXCEPT !.section = "cloze"]
    ELSE IF StartsWith(Upper(line), <<"BASIC">>) THEN [st EXCEPT !.section = "basic"]
    ELSE IF st.section = "cloze" THEN [st EXCEPT !.cloze = Append(@, line)]
    ELSE IF st.section = "basic" THEN [st EXCEPT !.basic = Append(@, line)]
    ELSE st

RECURSIVE ParseLines(_, _)
ParseLines(st, lines) ==
    IF lines = <<>> THEN st
    ELSE ParseLines(ParseLine(st, Head(lines)), Tail(lines))

\* split_cards(generated_text)
split_cards(text) == ParseLines(ParseStart, SplitLines(text))

\* the two recovered sections written out again under their markers
EmitSections(cloze, basic) ==
    Join(<<<<"CLOZE">>>> \o cloze \o <<<<"BASIC">>>> \o basic, <<NL>>)

\* the fetching state while the parser is looked at
IdleFetch ==
    /\ variant = "articles"
    /\ cache = <<>>
    /\ article = <<>>
    /\ call = <<>>
    /\ answers = <<>>
    /\ origin = <<>>
    /\ nFetch = 0

\* the run state while no run is looked at
IdleRun ==
    /\ to_file = FALSE
    /\ source_list = <<>>
    /\ idx = 0
    /\ pcRun = "idle"
    /\ notes = <<>>
    /\ posted = <<>>
    /\ cloze_file = <<>>
    /\ basic_file = <<>>
    /\ skipped_articles = <<>>
    /\ summary = <<>>
    /\ trace = <<>>

\* the ledger-aware main while it is not looked at
IdleCli ==
    /\ ledger = {}
    /\ deck = ""
    /\ process_all = FALSE
    /\ runNo = 0
    /\ cidx = 0
    /\ pcCli = "off"
    /\ log = <<>>
    /\ ledgerAtStart = {}
    /\ prev = <<>>
    /\ prevDone = {}
    /\ exportedPairs = {}

\* the page reduction while it is not looked at
IdleExtract ==
    /\ soup = <<>>
    /\ body = <<>>
    /\ pcExtract = "idle"

\* the duplicate filter while it is not looked at
IdleDup ==
    /\ deck_fronts = <<>>
    /\ candidate = <<>>
    /\ nExports = 0

\* the start of a run while it is not looked at
IdleStart ==
    /\ program = ""
    /\ config = <<>>
    /\ config0 = <<>>
    /\ start_to_file = FALSE
    /\ pcStart = "idle"
    /\ model_requests = <<>>
    /\ work = {}

IdleSide == IdleExtract /\ IdleDup /\ IdleStart

InitParse ==
    /\ IdleFetch
    /\ IdleRun
    /\ IdleCli
    /\ IdleSide
    /\ generated_text \in Responses
    /\ cloze_cards = <<>>
    /\ basic_cards = <<>>
    /\ re_cloze = <<>>
    /\ re_basic = <<>>
    /\ pcParse = "input"

\* the response is split into the two lists
SplitCards ==
    /\ pcParse = "input"
    /\ LET r == split_cards(generated_text) IN
        /\ cloze_cards' = r.cloze
        /\ basic_cards' = r.basic
    /\ pcParse' = "parsed"
    /\ UNCHANGED <<generated_text, re_cloze, re_basic>>
    /\ UNCHANGED <<fetchVars, runVars, cliVars>>
    /\ UNCHANGED sideVars

\* the recovered lists are emitted with their markers and split again
Reparse ==
    /\ pcParse = "parsed"
    /\ LET r == split_cards(EmitSections(cloze_cards, basic_cards)) IN
        /\ re_cloze' = r.cloze
        /\ re_basic' = r.basic
    /\ pcParse' = "reparsed"
    /\ UNCHANGED <<generated_text, cloze_cards, basic_cards>>
    /\ UNCHANGED <<fetchVars, runVars, cliVars>>
    /\ UNCHANGED sideVars

NextParse == SplitCards \/ Reparse

SpecParse == InitParse /\ [][NextParse]_vars

\* ---- the section grammar, stated on the lines instead of by a scan
IsClozeMarker(l) == StartsWith(Upper(l), <<"CLOZE">>)
IsBasicMarker(l) == ~IsClozeMarker(l) /\ StartsWith(Upper(l), <<"BASIC">>)
IsMarker(l) == IsClozeMarker(l) \/ IsBasicMarker(l)

\* the section in force at line k of L: that of the last marker before k
SectionAt(L, k) ==
    LET M == {j \in 1..(k - 1) : IsMarker(L[j])} IN
    IF M = {} THEN NoSection
    ELSE LET m == CHOOSE j \in M : \A i \in M : i <= j IN
         IF IsClozeMarker(L[m]) THEN "cloze" ELSE "basic"

\* the lines of L from k on that are no markers and stand in section sec
RECURSIVE SectionLines(_, _, _)
SectionLines(L, k, sec) ==
    IF k > Len(L) THEN <<>>
    ELSE (IF ~IsMarker(L[k]) /\ SectionAt(L, k) = sec THEN <<L[k]>> ELSE <<>>)
         \o SectionLines(L, k + 1, sec)

\* the lines that are not blank, stripped when `strip`
RECURSIVE NonBlank(_, _)
NonBlank(lines, strip) ==
    IF lines = <<>> THEN <<>>
    ELSE (IF Strip(Head(lines)) = <<>> THEN <<>>
          ELSE <<IF strip THEN Strip(Head(lines)) ELSE Head(lines)>>)
         \o NonBlank(Tail(lines), strip)

RawLines == NonBlank(SplitLines(generated_text), FALSE)
StrippedLines == NonBlank(SplitLines(generated_text), TRUE)

\* C7 as stated: blank lines skipped, the marker test made on the line as
\* it stands, and every other line appended verbatim to the section in force
C7_Verbatim ==
    pcParse # "input" =>
        /\ cloze_cards = SectionLines(RawLines, 1, "cloze")
        /\ basic_cards = SectionLines(RawLines, 1, "basic")

\* C7 (amended): every line is stripped of leading and trailing whitespace
\* first; lines blank after stripping are skipped; a stripped line whose
\* uppercased form starts with CLOZE (BASIC) sets the section to cloze
\* (basic) and is discarded; every other line is appended, stripped, to the
\* list of the section in force, in order of appearance; lines before the
\* first marker are discarded.  Any number and order of markers.
C7_SectionGrammar ==
    pcParse # "input" =>
        /\ cloze_cards = SectionLines(StrippedLines, 1, "cloze")
        /\ basic_cards = SectionLines(StrippedLines, 1, "basic")

\* a response with a line before the first marker, both sections filled, a
\* marker in lower case and a line that stripping changes
C7_Witness ==
    /\ pcParse = "parsed"
    /\ cloze_cards # <<>>
    /\ basic_cards # <<>>
    /\ RawLines # StrippedLines
    /\ \E k \in 1..Len(StrippedLines) : StrippedLines[k][1] \in {"cloze", "basic"}

\* C8: the lists recovered from a response, emitted again as CLOZE, the
\* cloze list, BASIC, the basic list, parse to the same two lists
C8_RoundTrip ==
    pcParse = "reparsed" => re_cloze = cloze_cards /\ re_basic = basic_cards

\* a round trip of a response with cards in both sections
C8_Witness ==
    /\ pcParse = "reparsed"
    /\ cloze_cards # <<>>
    /\ basic_cards # <<>>
    /\ re_cloze = cloze_cards
    /\ Len(SplitLines(generated_text)) = MaxLines

\* the elements of a list
Elems(list) == {list[i] : i \in 1..Len(list)}

\* a line that begins with a marker word and goes on as a sentence
IsMarkerSentence(l) == IsMarker(l) /\ Len(l) > 1

\* the position of the first marker of L after k, Len(L) + 1 when none
NextMarker(L, k) ==
    LET M == {j \in (k + 1)..Len(L) : IsMarker(L[j])} IN
    IF M = {} THEN Len(L) + 1 ELSE CHOOSE j \in M : \A i \in M : j <= i

\* the list of the section a marker line opens
ListOf(l) == IF IsClozeMarker(l) THEN cloze_cards ELSE basic_cards

\* C24: every element of the two returned lists is non-empty, has no
\* leading or trailing whitespace and does not start, in any case, with
\* CLOZE or BASIC; so a line that begins with a marker word and goes on as a
\* sentence is not returned as a card: it sets the section, and the lines
\* after it up to the next marker are cards of that section
C24_ParserOutput ==
    pcParse # "input" =>
        /\ \A l \in Elems(cloze_cards) \cup Elems(basic_cards) :
              /\ l # <<>>
              /\ Strip(l) = l
              /\ ~StartsWith(Upper(l), <<"CLOZE">>)
              /\ ~StartsWith(Upper(l), <<"BASIC">>)
        /\ \A k \in 1..Len(StrippedLines) :
              IsMarkerSentence(StrippedLines[k]) =>
                  /\ StrippedLines[k] \notin Elems(cloze_cards) \cup Elems(basic_cards)
                  /\ \A j \in (k + 1)..(NextMarker(StrippedLines, k) - 1) :
                        StrippedLines[j] \in Elems(ListOf(StrippedLines[k]))

\* a response whose basic section holds a line that begins with the word
\* cloze: the line is no card, and the line after it, written with blanks
\* around it, is a cloze card and no basic card
C24_Witness ==
    /\ pcParse = "parsed"
    /\ \E k \in 1..(Len(StrippedLines) - 1) :
          /\ IsMarkerSentence(StrippedLines[k])
          /\ SectionAt(StrippedLines, k) = "basic"
          /\ IsClozeMarker(StrippedLines[k])
          /\ ~IsMarker(StrippedLines[k + 1])
          /\ StrippedLines[k + 1] \in Elems(cloze_cards)
          /\ StrippedLines[k + 1] \notin Elems(basic_cards)
    /\ RawLines # StrippedLines

\* ================================================================ fetching
\* Article._fetch_from_url_or_cache (articles.py) and fetch_article_text
\* (articles-to-anki.py).  The cache file of a URL is named by the SHA-256
\* of the URL; the model keys the cache by the URL itself.

\* Python's None, for a title or a text
None == <<"None">>
\* no file at a path
NoFile == <<"NoFile">>

\* the URLs of the source list
URLs == {<<"u1">>, <<"u2">>}

\* doc.short_title(): whitespace-normalised, "" when the page has no title
ShortTitles == {<<>>, <<"a">>}

\* soup.get_text(separator="\n", strip=True): the stripped text nodes joined
\* by line ends; "" when the reduced page holds no text
GetTextResults == {<<>>, <<"a">>, <<"a", NL, SP, "b">>, <<"a", NL, SP, NL, "b">>}

\* the completion service's answer to the extraction request ("" when it
\* has no content); "Title:" is one token
FallbackContents ==
    { <<>>,
      <<"Title:", SP, "a", NL, "b">>,
      <<"Title:", SP, SP, "a", NL, SP, "b", NL, NL, "b">>,
      <<"a">>,
      <<NL, "b">> }

\* what the network and the services answer to one fetch
WebOutcomes ==
    [ok : {FALSE}, short_title : {<<>>}, get_text : {<<>>}, content : {<<>>}]
    \cup [ok : {TRUE}, short_title : ShortTitles, get_text : GetTextResults \ {<<>>},
          content : {<<>>}]
    \cup [ok : {TRUE}, short_title : ShortTitles, get_text : {<<>>},
          content : FallbackContents]

\* no request was sent
NoAnswers == [ok |-> FALSE, short_title |-> <<>>, get_text |-> <<>>, content |-> <<>>]

\* f.readlines(): the lines with their line ends
RECURSIVE ReadLines(_)
ReadLines(s) ==
    IF s = <<>> THEN <<>>
    ELSE LET k == FirstNL(s, 1) IN
         IF k = 0 THEN <<s>>
         ELSE <<SubSeq(s, 1, k)>> \o ReadLines(SubSeq(s, k + 1, Len(s)))

\* "".join(lines)
RECURSIVE Concat(_)
Concat(lines) == IF lines = <<>> THEN <<>> ELSE Head(lines) \o Concat(Tail(lines))

\* s.replace("Title: ", "")
RECURSIVE RemoveTitlePrefix(_)
RemoveTitlePrefix(s) ==
    IF s = <<>> THEN <<>>
    ELSE IF StartsWith(s, <<"Title:", SP>>) THEN RemoveTitlePrefix(SubSeq(s, 3, Len(s)))
    ELSE <<Head(s)>> \o RemoveTitlePrefix(Tail(s))

\* the lines of `lines` that are not blank, stripped when `strip`
RECURSIVE KeepNonBlank(_, _)
KeepNonBlank(lines, strip) ==
    IF lines = <<>> THEN <<>>
    ELSE (IF Strip(Head(lines)) = <<>> THEN <<>>
          ELSE <<IF strip THEN Strip(Head(lines)) ELSE Head(lines)>>)
         \o KeepNonBlank(Tail(lines), strip)

\* "\n".join(line for line in text.splitlines() if line.strip())
DropBlankLines(text) == Join(KeepNonBlank(SplitLines(text), FALSE), <<NL>>)

\* f.write(title + "\n"); f.write(text)
CacheFileOf(title, text) == title \o <<NL>> \o text

\* the cache read of articles.py: lines[0].strip(), "".join(lines[1:]).strip()
ReadCacheArticles(file) ==
    LET lines == ReadLines(file) IN
    [title |-> Strip(lines[1]), text |-> Strip(Concat(Tail(lines)))]

\* f.readline().rstrip("\n")
FirstLine(file) ==
    LET k == FirstNL(file, 1) IN
    IF k = 0 THEN file ELSE SubSeq(file, 1, k - 1)

\* f.read() after the first line
AfterFirstLine(file) ==
    LET k == FirstNL(file, 1) IN
    IF k = 0 THEN <<>> ELSE SubSeq(file, k + 1, Len(file))

\* the cache read of the legacy script
ReadCacheLegacy(file) == [title |-> FirstLine(file), text |-> AfterFirstLine(file)]

\* a cache lookup that misses an entry of one line
CacheHitTwoLines(use_cache, file) == use_cache /\ file # NoFile /\ Len(ReadLines(file)) > 1

\* a cache lookup that never hits: the fetch always goes to the network
CacheHitNever(use_cache, file) == FALSE

\* articles.py: the cached pair is returned: caching on, the file exists and
\* has a line
CacheHit(use_cache, file) == use_cache /\ file # NoFile /\ ReadLines(file) # <<>>

\* the legacy script: caching on and the file exists
CacheHitLegacy(use_cache, file) == use_cache /\ file # NoFile

\* a fallback text that keeps the title line
FallbackTextWhole(content) == Join(KeepNonBlank(SplitLines(content), TRUE), <<NL>>)

\* title and text of the extraction fallback's answer
FallbackTitle(content) == RemoveTitlePrefix(Strip(SplitLines(content)[1]))
FallbackText(content) == Join(KeepNonBlank(Tail(SplitLines(content)), TRUE), <<NL>>)

\* the record of one fetch
Call(u, uc, existed, read, http, llm, wrote, raised) ==
    [url |-> u, use_cache |-> uc, existed |-> existed, read |-> read, http |-> http,
     llm |-> llm, wrote |-> wrote, raised |-> raised]

NewArticle(u) == [url |-> u, file_path |-> None, title |-> None, text |-> None]

CachePath(u) == <<"cache">> \o u

IdleParse ==
    /\ generated_text = <<>>
    /\ cloze_cards = <<>>
    /\ basic_cards = <<>>
    /\ re_cloze = <<>>
    /\ re_basic = <<>>
    /\ pcParse = "idle"

InitFetch ==
    /\ IdleParse
    /\ IdleRun
    /\ IdleCli
    /\ IdleSide
    /\ variant \in {"articles", "legacy"}
    /\ cache = [u \in URLs |-> NoFile]
    /\ article = NewArticle(<<"u1">>)
    /\ call = Call(<<"u1">>, FALSE, FALSE, FALSE, FALSE, FALSE, FALSE, FALSE)
    /\ answers = NoAnswers
    /\ origin = [u \in URLs |-> None]
    /\ nFetch = 0

\* Article(url=u).fetch_content(use_cache=uc), with the answers w
FetchFromUrlOrCache(u, uc, w) ==
    /\ variant = "articles"
    /\ nFetch < MaxFetches
    /\ nFetch' = nFetch + 1
    /\ answers' = IF CacheHit(uc, cache[u]) THEN NoAnswers ELSE w
    /\ LET existed == uc /\ cache[u] # NoFile
           a0 == IF existed THEN [NewArticle(u) EXCEPT !.file_path = CachePath(u)]
                 ELSE NewArticle(u)
       IN
       IF CacheHit(uc, cache[u]) THEN
           \* the cached pair
           /\ article' = [a0 EXCEPT !.title = ReadCacheArticles(cache[u]).title,
                                    !.text = ReadCacheArticles(cache[u]).text]
           /\ call' = Call(u, uc, existed, TRUE, FALSE, FALSE, FALSE, FALSE)
           /\ UNCHANGED <<cache, origin>>
       ELSE IF ~w.ok THEN
           \* requests.get failed: RuntimeError
           /\ article' = a0
           /\ call' = Call(u, uc, existed, existed, TRUE, FALSE, FALSE, TRUE)
           /\ UNCHANGED <<cache, origin>>
       ELSE
           LET title0 == IF w.short_title # <<>> THEN w.short_title ELSE u
               text0 == DropBlankLines(w.get_text)
               fallback == text0 = <<>>
               failed == fallback /\ w.content = <<>>
               title == IF fallback THEN FallbackTitle(w.content) ELSE title0
               text == IF fallback THEN FallbackText(w.content) ELSE text0
           IN
           IF failed THEN
               \* the fallback has no content either: RuntimeError
               /\ article' = a0
               /\ call' = Call(u, uc, existed, existed, TRUE, TRUE, FALSE, TRUE)
               /\ UNCHANGED <<cache, origin>>
           ELSE
               /\ article' = [a0 EXCEPT !.title = title, !.text = text]
               /\ call' = Call(u, uc, existed, existed, TRUE, fallback, uc, FALSE)
               /\ cache' = IF uc THEN [cache EXCEPT ![u] = CacheFileOf(title, text)]
                           ELSE cache
               /\ origin' = IF uc THEN [origin EXCEPT ![u] = <<title, text>>] ELSE origin
    /\ UNCHANGED <<variant>>
    /\ UNCHANGED <<parseVars, runVars, cliVars>>
    /\ UNCHANGED sideVars

\* fetch_article_text(u, use_cache=uc) of the legacy script, with the answers w
FetchArticleText(u, uc, w) ==
    /\ variant = "legacy"
    /\ nFetch < MaxFetches
    /\ nFetch' = nFetch + 1
    /\ answers' = IF CacheHitLegacy(uc, cache[u]) THEN NoAnswers ELSE w
    /\ LET existed == uc /\ cache[u] # NoFile IN
       IF CacheHitLegacy(uc, cache[u]) THEN
           /\ article' = [NewArticle(u) EXCEPT !.title = ReadCacheLegacy(cache[u]).title,
                                               !.text = ReadCacheLegacy(cache[u]).text]
           /\ call' = Call(u, uc, existed, TRUE, FALSE, FALSE, FALSE, FALSE)
           /\ UNCHANGED <<cache, origin>>
       ELSE IF ~w.ok THEN
           \* requests.get failed: (None, None)
           /\ article' = NewArticle(u)
           /\ call' = Call(u, uc, existed, FALSE, TRUE, FALSE, FALSE, FALSE)
           /\ UNCHANGED <<cache, origin>>
       ELSE
           LET title == IF w.short_title # <<>> THEN w.short_title ELSE u
               text == DropBlankLines(w.get_text)
           IN
           /\ article' = [NewArticle(u) EXCEPT !.title = title, !.text = text]
           /\ call' = Call(u, uc, existed, FALSE, TRUE, FALSE, uc, FALSE)
           /\ cache' = IF uc THEN [cache EXCEPT ![u] = CacheFileOf(title, text)] ELSE cache
           /\ origin' = IF uc THEN [origin EXCEPT ![u] = <<title, text>>] ELSE origin
    /\ UNCHANGED <<variant>>
    /\ UNCHANGED <<parseVars, runVars, cliVars>>
    /\ UNCHANGED sideVars

NextFetch ==
    \E u \in URLs, uc \in BOOLEAN, w \in WebOutcomes :
        \/ FetchFromUrlOrCache(u, uc, w)
        \/ FetchArticleText(u, uc, w)

SpecFetch == InitFetch /\ [][NextFetch]_vars


\* the last fetch was served from the cache
ServedFromCache == nFetch > 0 /\ call.use_cache /\ call.existed /\ ~call.http

\* C5: a fetch served from the cache returns the (title, text) pair that the
\* fetch which wrote the cache entry returned, byte for byte
C5_CacheRoundTrip ==
    ServedFromCache => <<article.title, article.text>> = origin[call.url]

\* C6: with caching on and a cache file at the URL's path, the fetch sends no
\* HTTP request and no extraction request, does not fail, leaves the cache as
\* it is and returns the file's first line as title and the rest as text (up
\* to surrounding whitespace; the bytes are C5's matter); with caching off
\* the cache is neither read nor written
C6_CacheShortCircuit ==
    [][nFetch' = nFetch + 1 =>
        /\ (call'.use_cache /\ cache[call'.url] # NoFile) =>
              /\ ~call'.http /\ ~call'.llm /\ ~call'.raised
              /\ cache' = cache
              /\ Strip(article'.title) = Strip(FirstLine(cache[call'.url]))
              /\ Strip(article'.text) = Strip(AfterFirstLine(cache[call'.url]))
        /\ ~call'.use_cache => (cache' = cache /\ ~call'.read /\ ~call'.wrote)
    ]_vars

\* a fetch served from the cache: no request, the cached pair returned, while
\* the other URL has a cache entry too
C6_Witness ==
    /\ ServedFromCache
    /\ call.read /\ ~call.llm /\ ~call.raised
    /\ \A u \in URLs : cache[u] # NoFile
    /\ article.text \notin {None, <<>>}

\* the title line of an extraction answer, read as "Title: <title>"
TitleLine(content) ==
    LET l == Strip(FirstLine(content)) IN
    IF StartsWith(l, <<"Title:", SP>>) THEN SubSeq(l, 3, Len(l)) ELSE l

\* C13: in a fetch of a URL by Article the extraction request is sent
\* exactly when the page was received and its plain text is empty; the
\* first line of the answer is read as the title and the lines after it as
\* the body; when the answer has no content the fetch fails (RuntimeError)
\* and gives no title and no body
C13_ExtractionFallback ==
    (variant = "articles" /\ nFetch > 0) =>
        /\ call.llm <=> (call.http /\ answers.ok /\ Strip(answers.get_text) = <<>>)
        /\ (call.llm /\ answers.content = <<>>) =>
              call.raised /\ article.title = None /\ article.text = None
        /\ (call.llm /\ answers.content # <<>>) =>
              /\ ~call.raised
              /\ article.title = TitleLine(answers.content)
              /\ SplitLines(article.text)
                    = NonBlank(SplitLines(AfterFirstLine(answers.content)), TRUE)

\* a fetch through the fallback: the answer's title line and its body of
\* two lines, a blank line between them dropped
C13_Witness ==
    /\ variant = "articles"
    /\ call.llm /\ ~call.raised
    /\ answers.content = <<"Title:", SP, SP, "a", NL, SP, "b", NL, NL, "b">>
    /\ article.text = <<"b", NL, "b">>

\* C19: a cache file is written only by a fetch that missed the cache and
\* got a title and a body that is not empty; a fetch that fails or extracts
\* no text writes none, so no cache file has an empty body and no fetch
\* served from the cache returns one
C19_CacheOnlyAfterExtraction ==
    /\ \A u \in URLs :
          cache[u] # NoFile =>
              /\ Strip(FirstLine(cache[u])) # <<>>
              /\ Strip(AfterFirstLine(cache[u])) # <<>>
    /\ (nFetch > 0 /\ call.wrote) => (~call.existed /\ ~call.raised /\ article.text # <<>>)
    /\ ServedFromCache => article.text # <<>>

\* C20: a cache file that exists is never rewritten or deleted: a fetch
\* leaves every existing file as it is, with caching on or off
C20_CacheImmutable ==
    [][\A u \in URLs : cache[u] # NoFile => cache'[u] = cache[u]]_vars

\* a cached URL was fetched again with caching off and the page had changed:
\* the request was sent, another pair returned, the cache file left as the
\* first fetch wrote it
C20_Witness ==
    /\ nFetch >= 2
    /\ ~call.use_cache /\ call.http /\ ~call.raised
    /\ cache[call.url] # NoFile
    /\ origin[call.url] # None
    /\ cache[call.url] = CacheFileOf(origin[call.url][1], origin[call.url][2])
    /\ <<article.title, article.text>> # origin[call.url]

\* C22: an Article has exactly one of url and file_path set, from its
\* construction on and after every fetch; the Article of a URL keeps its
\* url and never gets a file_path
C22_ArticleIdentity ==
    /\ (article.url # None) # (article.file_path # None)
    /\ article.url = call.url
    /\ article.file_path = None

\* ================================================================= the run
\* main of main.py (Article of articles.py, ExportCards of export_cards.py)
\* when variant = "articles", main of articles-to-anki.py when "legacy".

\* the field separator of a card line
Separator == <<SP, ";", SP>>

\* index of the first Separator in s at or after i, 0 when there is none
RECURSIVE FindSeparator(_, _)
FindSeparator(s, i) ==
    IF i + Len(Separator) - 1 > Len(s) THEN 0
    ELSE IF SubSeq(s, i, i + Len(Separator) - 1) = Separator THEN i
    ELSE FindSeparator(s, i + 1)

\* card.split(" ; ")
RECURSIVE SplitFields(_)
SplitFields(s) ==
    LET k == FindSeparator(s, 1) IN
    IF k = 0 THEN <<s>>
    ELSE <<SubSeq(s, 1, k - 1)>> \o SplitFields(SubSeq(s, k + Len(Separator), Len(s)))

\* front, back = card.split(" ; ") does not raise ValueError
Unpacks(card) == Len(SplitFields(card)) = 2

Front(card) == SplitFields(card)[1]
Back(card) == IF Len(SplitFields(card)) >= 2 THEN SplitFields(card)[2] ELSE <<>>

\* the raw card lines the generator returns: a well-formed line and a line
\* without the separator; the token "c" stands for a text with a deletion
\* {{c1::...}}, the other tokens for text without one
ClozeLines == { <<"c", SP, ";", SP, ";">>, <<"m">> }
BasicLines == { <<"q", SP, ";", SP, "a", SP, ";">>, <<"m">> }

\* what the completion service and the parser give for one article
Generations ==
    [raised : BOOLEAN,
     cloze : SeqsUpTo(ClozeLines, MaxCards),
     basic : SeqsUpTo(BasicLines, MaxCards)]

\* how the fetch of one article ends: failed (network error, timeout,
\* non-success status, no text after the fallback), an empty text, a text
FetchOutcomes == {"failed", "empty", "text"}

\* args.deck
DeckName == <<"Default">>

\* the title the fetch gives the article at u
TitleOf(u) == <<"t">> \o u

\* the note of one addNote request
Note(front, back, title, is_cloze) ==
    [deckName |-> DeckName,
     modelName |-> IF is_cloze THEN "Cloze" ELSE "Basic",
     Front |-> front, Back |-> back,
     Text |-> IF is_cloze THEN front ELSE None,
     tag |-> title]

\* f"{card} {title} ;\n"
FileLine(card, title) == card \o <<SP>> \o title \o <<SP, ";">>

\* the cards of a loop up to the first whose unpacking raises
RECURSIVE UntilRaise(_)
UntilRaise(cards) ==
    IF cards = <<>> \/ ~Unpacks(Head(cards)) THEN <<>>
    ELSE <<Head(cards)>> \o UntilRaise(Tail(cards))

\* the notes of a loop over cards that are split into front and back
SplitNotes(cards, title, is_cloze) ==
    [i \in 1..Len(cards) |-> Note(Front(cards[i]), Back(cards[i]), title, is_cloze)]

\* the notes of the basic loop of ExportCards.export: the whole line is the
\* front, the title the back
WholeNotes(cards, title) ==
    [i \in 1..Len(cards) |-> Note(cards[i], title, title, FALSE)]

\* ExportCards.export, RPC mode: the cloze lines are split, the basic lines
\* are sent whole as the front with the title as the back
ExportRpc(cloze, basic, title) ==
    LET cz == UntilRaise(cloze)
        raised == cz # cloze
    IN [raised |-> raised,
        sent |-> cz \o (IF raised THEN <<>> ELSE basic),
        notes |-> SplitNotes(cz, title, TRUE)
                  \o (IF raised THEN <<>> ELSE WholeNotes(basic, title))]

\* the legacy main, RPC mode: both kinds of line are split
ExportRpcLegacy(cloze, basic, title) ==
    LET cz == UntilRaise(cloze)
        craised == cz # cloze
        bs == IF craised THEN <<>> ELSE UntilRaise(basic)
        raised == craised \/ bs # basic
    IN [raised |-> raised,
        sent |-> cz \o bs,
        notes |-> SplitNotes(cz, title, TRUE) \o SplitNotes(bs, title, FALSE)]

\* the positions, among the requests of one export, of those that fail
\* (requests.post or raise_for_status raises RequestException)
FailureSets == {S \in SUBSET (1..(2 * MaxCards)) : Cardinality(S) <= MaxFailures}

\* ExportCards._export_to_anki after the request: the handler prints
\* "Failed to add card" when the request raised, and the print of "Added"
\* after the try statement runs in either case
ExportToAnki(failed) ==
    [failed |-> failed,
     printed |-> (IF failed THEN <<"Failed to add card">> ELSE <<>>) \o <<"Added">>]

\* add_to_anki of the legacy script: the handler prints "Failed to add
\* card"; nothing is printed for a request that went through
AddToAnki(failed) ==
    [failed |-> failed,
     printed |-> IF failed THEN <<"Failed to add card">> ELSE <<>>]

\* what became of the n requests of one export, those at fails failing
PostedArticles(n, fails) == [i \in 1..n |-> ExportToAnki(i \in fails)]
PostedLegacy(n, fails) == [i \in 1..n |-> AddToAnki(i \in fails)]

\* _export_to_file / export_to_file: one line per card
FileLines(cards, title) == [i \in 1..Len(cards) |-> FileLine(cards[i], title)]

\* a batch file opened for writing instead of appending
WriteTo(file, lines) == lines

\* open(file_path, "a") and the writes: the lines go after those the batch
\* file has
AppendTo(file, lines) == file \o lines

\* what became of one article
Entry(u, fetch, g, generated, exported, sent) ==
    [url |-> u, fetch |-> fetch,
     cloze |-> IF generated THEN g.cloze ELSE <<>>,
     basic |-> IF generated THEN g.basic ELSE <<>>,
     generated |-> generated, exported |-> exported, sent |-> sent]

SourceLists == {<<<<"u1">>, <<"u2">>>>}

InitRun ==
    /\ IdleParse
    /\ IdleCli
    /\ IdleSide
    /\ variant \in {"articles", "legacy"}
    /\ cache = <<>>
    /\ article = <<>>
    /\ call = <<>>
    /\ answers = <<>>
    /\ origin = <<>>
    /\ nFetch = 0
    /\ to_file \in BOOLEAN
    /\ source_list \in SourceLists
    /\ idx = 1
    /\ pcRun = "loop"
    /\ notes = <<>>
    /\ posted = <<>>
    /\ cloze_file = <<>>
    /\ basic_file = <<>>
    /\ skipped_articles = <<>>
    /\ summary = None
    /\ trace = <<>>

\* main.py: one turn of the loop over the articles
ProcessArticle(f, g, fails) ==
    /\ variant = "articles"
    /\ pcRun = "loop"
    /\ idx <= Len(source_list)
    /\ LET u == source_list[idx]
           title == TitleOf(u)
       IN
       IF f = "failed" THEN
           \* fetch_content raises RuntimeError; nothing catches it
           /\ pcRun' = "aborted_fetch"
           /\ trace' = Append(trace, Entry(u, f, g, FALSE, FALSE, <<>>))
           /\ UNCHANGED <<idx, notes, posted, cloze_file, basic_file>>
       ELSE IF f = "text" /\ g.raised THEN
           \* the completion request raises; nothing catches it
           /\ pcRun' = "aborted_gen"
           /\ trace' = Append(trace, Entry(u, f, g, FALSE, FALSE, <<>>))
           /\ UNCHANGED <<idx, notes, posted, cloze_file, basic_file>>
       ELSE
           LET generated == f = "text"
               cloze == IF generated THEN g.cloze ELSE <<>>
               basic == IF generated THEN g.basic ELSE <<>>
           IN
           IF cloze = <<>> /\ basic = <<>> THEN
               \* "No cards generated": continue
               /\ idx' = idx + 1
               /\ trace' = Append(trace, Entry(u, f, g, generated, FALSE, <<>>))
               /\ UNCHANGED <<pcRun, notes, posted, cloze_file, basic_file>>
           ELSE IF to_file THEN
               /\ cloze_file' = AppendTo(cloze_file, FileLines(cloze, title))
               /\ basic_file' = AppendTo(basic_file, FileLines(basic, title))
               /\ idx' = idx + 1
               /\ trace' = Append(trace, Entry(u, f, g, TRUE, TRUE, cloze \o basic))
               /\ UNCHANGED <<pcRun, notes, posted>>
           ELSE
               LET x == ExportRpc(cloze, basic, title) IN
               /\ notes' = notes \o x.notes
               /\ posted' = posted \o PostedArticles(Len(x.notes), fails)
               /\ pcRun' = IF x.raised THEN "aborted_export" ELSE pcRun
               /\ idx' = IF x.raised THEN idx ELSE idx + 1
               /\ trace' = Append(trace, Entry(u, f, g, TRUE, ~x.raised, x.sent))
               /\ UNCHANGED <<cloze_file, basic_file>>
    /\ UNCHANGED <<to_file, source_list, skipped_articles, summary>>
    /\ UNCHANGED <<parseVars, fetchVars, cliVars>>
    /\ UNCHANGED sideVars

\* articles-to-anki.py: one turn of the loop over the URLs
ProcessUrl(f, g, fails) ==
    /\ variant = "legacy"
    /\ pcRun = "loop"
    /\ idx <= Len(source_list)
    /\ LET u == source_list[idx]
           title == TitleOf(u)
       IN
       IF f # "text" THEN
           \* no article text: the URL is skipped, with no title when the
           \* request failed
           /\ skipped_articles' =
                  Append(skipped_articles, <<u, IF f = "failed" THEN None ELSE title>>)
           /\ idx' = idx + 1
           /\ trace' = Append(trace, Entry(u, f, g, FALSE, FALSE, <<>>))
           /\ UNCHANGED <<pcRun, notes, posted, cloze_file, basic_file>>
       ELSE IF g.raised THEN
           /\ pcRun' = "aborted_gen"
           /\ trace' = Append(trace, Entry(u, f, g, FALSE, FALSE, <<>>))
           /\ UNCHANGED <<idx, notes, posted, cloze_file, basic_file, skipped_articles>>
       ELSE IF to_file THEN
           /\ cloze_file' = AppendTo(cloze_file, FileLines(g.cloze, title))
           /\ basic_file' = AppendTo(basic_file, FileLines(g.basic, title))
           /\ idx' = idx + 1
           /\ trace' = Append(trace, Entry(u, f, g, TRUE, TRUE, g.cloze \o g.basic))
           /\ UNCHANGED <<pcRun, notes, posted, skipped_articles>>
       ELSE
           LET x == ExportRpcLegacy(g.cloze, g.basic, title) IN
           /\ notes' = notes \o x.notes
           /\ posted' = posted \o PostedLegacy(Len(x.notes), fails)
           /\ pcRun' = IF x.raised THEN "aborted_export" ELSE pcRun
           /\ idx' = IF x.raised THEN idx ELSE idx + 1
           /\ trace' = Append(trace, Entry(u, f, g, TRUE, ~x.raised, x.sent))
           /\ UNCHANGED <<cloze_file, basic_file, skipped_articles>>
    /\ UNCHANGED <<to_file, source_list, summary>>
    /\ UNCHANGED <<parseVars, fetchVars, cliVars>>
    /\ UNCHANGED sideVars

\* the loop is through: "All articles processed" / "All done!" and, in the
\* legacy script, the skipped articles
Finish ==
    /\ pcRun = "loop"
    /\ idx > Len(source_list)
    /\ pcRun' = "done"
    /\ summary' = IF variant = "legacy" THEN skipped_articles ELSE summary
    /\ UNCHANGED <<to_file, source_list, idx, notes, posted, cloze_file, basic_file,
                   skipped_articles, trace>>
    /\ UNCHANGED <<parseVars, fetchVars, cliVars>>
    /\ UNCHANGED sideVars

NextRun ==
    \/ \E f \in FetchOutcomes, g \in Generations, fails \in FailureSets :
          ProcessArticle(f, g, fails)
    \/ \E f \in FetchOutcomes, g \in Generations, fails \in FailureSets :
          ProcessUrl(f, g, fails)
    \/ Finish

SpecRun == InitRun /\ [][NextRun]_vars

\* a card line that has the field separator
HasSeparator(card) == FindSeparator(card, 1) # 0

\* the lines of an article handed to the exporter
Handed(e) == e.cloze \o e.basic

\* C9: a line without the separator is skipped by the exporter without
\* raising: the export of every article handed cards finishes, delivers
\* exactly its well-formed lines, in order, and the run goes on
C9_MalformedTolerance ==
    /\ pcRun # "aborted_export"
    /\ \A k \in 1..Len(trace) :
          Handed(trace[k]) # <<>> =>
              /\ trace[k].exported
              /\ trace[k].sent = SelectSeq(Handed(trace[k]), HasSeparator)

\* a text with at least one deletion
HasDeletion(text) == \E i \in 1..Len(text) : text[i] = "c"

\* a raw line that is a valid cloze card: front and back, a deletion in the
\* front
ValidCloze(card) == HasSeparator(card) /\ HasDeletion(Front(card))

\* a raw line that is a valid basic card: a non-empty front and a non-empty
\* back
ValidBasic(card) == HasSeparator(card) /\ Front(card) # <<>> /\ Back(card) # <<>>

\* the articles of the run
Sources == {source_list[j] : j \in 1..Len(source_list)}

\* C23: every card delivered is valid: a note sent as Cloze has a deletion
\* in its text, a note sent as Basic is made of a valid basic line, and a
\* line of a batch file is the line of a valid card of its kind; a raw line
\* that is not valid is not delivered
C23_DeliveredCardsValid ==
    /\ \A i \in 1..Len(notes) :
          /\ notes[i].modelName = "Cloze" => HasDeletion(notes[i].Text)
          /\ notes[i].modelName = "Basic" =>
                /\ notes[i].Front # <<>> /\ notes[i].Back # <<>>
                /\ \/ ValidBasic(notes[i].Front)
                   \/ \E b \in BasicLines :
                         ValidBasic(b) /\ notes[i].Front = Front(b) /\ notes[i].Back = Back(b)
    /\ \A i \in 1..Len(cloze_file) :
          \E c \in ClozeLines, u \in Sources :
             ValidCloze(c) /\ cloze_file[i] = FileLine(c, TitleOf(u))
    /\ \A i \in 1..Len(basic_file) :
          \E b \in BasicLines, u \in Sources :
             ValidBasic(b) /\ basic_file[i] = FileLine(b, TitleOf(u))

\* C10: a failed fetch of an article does not end the run: the article is
\* recorded as skipped with its identifier, the loop goes on to the later
\* articles, and the summary printed at the end lists it
C10_FetchFailureNotFatal ==
    /\ pcRun # "aborted_fetch"
    /\ \A k \in 1..Len(trace) :
          trace[k].fetch = "failed" =>
              /\ \E j \in 1..Len(skipped_articles) : skipped_articles[j][1] = trace[k].url
              /\ pcRun = "done" =>
                    /\ summary # None
                    /\ \E j \in 1..Len(summary) : summary[j][1] = trace[k].url

\* the messages printed for the request at position i
Printed(i) == {posted[i].printed[j] : j \in 1..Len(posted[i].printed)}

\* C11: an addNote request that fails drops only its card: the failure is
\* logged, the card is not reported as added, and the requests for the
\* cards after it and for the later articles are still issued
C11_FailedRequestDropsOnlyItsCard ==
    /\ \A i \in 1..Len(posted) :
          posted[i].failed =>
              /\ "Failed to add card" \in Printed(i)
              /\ "Added" \notin Printed(i)
    /\ \A k \in 1..Len(trace) :
          (~to_file /\ \A i \in 1..Len(Handed(trace[k])) : HasSeparator(Handed(trace[k])[i]))
              => trace[k].sent = Handed(trace[k])

\* C12: a completion request that raises, or a response without content,
\* gives two empty lists: no exception reaches the loop, nothing is exported
\* for the article, and the run goes on to the next article
C12_GenerationFailureAbsorbed ==
    /\ pcRun # "aborted_gen"
    /\ \A k \in 1..Len(trace) :
          (trace[k].fetch = "text" /\ trace[k].cloze = <<>> /\ trace[k].basic = <<>>)
              => trace[k].sent = <<>>

\* the number of requests sent for the articles before the k-th
RECURSIVE SentBefore(_)
SentBefore(k) == IF k <= 1 THEN 0 ELSE SentBefore(k - 1) + Len(trace[k - 1].sent)

\* the addNote requests sent for the k-th article
NotesOf(k) == SubSeq(notes, SentBefore(k) + 1, SentBefore(k) + Len(trace[k].sent))

\* the back of a card line "front ; back ;": the field between the
\* separator and the closing ";"
BackField(card) ==
    LET b == Back(card) IN
    IF b # <<>> /\ b[Len(b)] = ";" THEN RStrip(SubSeq(b, 1, Len(b) - 1)) ELSE b

\* C15: in RPC mode every card line "C ; ;" of the cloze list and every
\* card line "Q ; A ;" of the basic list gives exactly one addNote request,
\* with the run's deck and the article's title as tag: the cloze note has
\* the cloze template and C as its Text field, the basic note the basic
\* template, Q as front and A as back
C15_RpcDelivery ==
    \A k \in 1..Len(trace) :
        LET e == trace[k]
            wf == \A i \in 1..Len(Handed(e)) : HasSeparator(Handed(e)[i])
        IN (~to_file /\ wf) =>
              /\ Len(e.sent) = Len(Handed(e))
              /\ \A i \in 1..Len(Handed(e)) :
                    LET n == NotesOf(k)[i]
                        card == Handed(e)[i]
                    IN /\ n.deckName = DeckName
                       /\ n.tag = TitleOf(e.url)
                       /\ IF i <= Len(e.cloze)
                          THEN n.modelName = "Cloze" /\ n.Text = Front(card)
                          ELSE /\ n.modelName = "Basic"
                               /\ n.Front = Front(card)
                               /\ n.Back = BackField(card)

\* s is p followed by the n elements after it
Extends(s, p, n) == Len(s) = Len(p) + n /\ SubSeq(s, 1, Len(p)) = p

\* the line of a batch file for a card of an article
BatchLine(card, u) == card \o <<SP>> \o TitleOf(u) \o <<SP, ";">>

\* C18: in file mode the export of an article leaves the lines the two
\* batch files have as they are and adds, per card and in list order, one
\* line made of the card line "front ; back ;" and "title ;": cloze cards
\* to the cloze file only, basic cards to the basic file only; no addNote
\* request is sent
C18_FileAppendOnly ==
    [][(to_file /\ Len(trace') = Len(trace) + 1) =>
          LET e == trace'[Len(trace')] IN
          /\ Extends(cloze_file', cloze_file, Len(e.cloze))
          /\ Extends(basic_file', basic_file, Len(e.basic))
          /\ \A i \in 1..Len(e.cloze) :
                cloze_file'[Len(cloze_file) + i] = BatchLine(e.cloze[i], e.url)
          /\ \A i \in 1..Len(e.basic) :
                basic_file'[Len(basic_file) + i] = BatchLine(e.basic[i], e.url)
          /\ notes' = <<>>
          /\ posted' = <<>>]_vars

\* the second article of a file-mode run has added its cloze and basic
\* lines after those of the first
C18_Witness ==
    /\ to_file
    /\ Len(trace) = 2
    /\ \A k \in 1..2 : trace[k].cloze # <<>> /\ trace[k].basic # <<>>
    /\ Len(cloze_file) = Len(trace[1].cloze) + Len(trace[2].cloze)
    /\ Len(basic_file) = Len(trace[1].basic) + Len(trace[2].basic)
    /\ notes = <<>>

\* ======================================================= ledger-aware runs
\* main of articles_to_anki/cli.py.  Its Article (fetch_content with
\* skip_if_processed, is_processed, identifier, mark_as_processed) and its
\* ExportCards are not among the sources; they follow sections 4.5 to 4.7 of
\* the specification.

Decks == {"A", "B"}

\* the articles of the stable source list; a URL is its own identifier
Articles == <<<<"u1">>, <<"u2">>>>

\* how generate_cards ends: the completion call failed (two empty lists), an
\* answer without cards, an answer with cards
CliGenOutcomes == {"failed", "empty", "cards"}

\* the ledger lookup: (identifier, deck) has an entry
IsProcessed(ident, d) == <<ident, d>> \in ledger

\* a fetch that ignores the ledger
FetchSkippedNever(skip_if_processed, is_processed) == FALSE

\* fetch_content returns before any fetch: it was asked to skip processed
\* articles and the ledger has the entry
FetchSkipped(skip_if_processed, is_processed) == skip_if_processed /\ is_processed

\* cli.py:219: article.is_processed and not args.process_all
SkipsArticle(is_processed, pa) == is_processed /\ ~pa

\* an entry that forgets the deck of the run
LedgerEntryAnyDeck(ident, d) == {<<ident, x>> : x \in Decks}

\* cli.py:245: article.mark_as_processed(args.deck)
LedgerEntry(ident, d) == {<<ident, d>>}

\* a run that marks every article it took up, cards or not
MarkedAlways(has_cards) == TRUE

\* a run that never reaches mark_as_processed
MarkedNever(has_cards) == FALSE

\* cli.py:227-245: mark_as_processed is reached only past the `continue` of
\* an article without cards
MarkedWhen(has_cards) == has_cards

\* the steps of the current run that concern article ident, in order
RECURSIVE StepsOf(_, _)
StepsOf(l, ident) ==
    IF l = <<>> THEN <<>>
    ELSE (IF Head(l)[1] = ident THEN <<Head(l)[2]>> ELSE <<>>) \o StepsOf(Tail(l), ident)

\* the articles with step st in l
WithStep(l, st) == {l[k][1] : k \in {j \in 1..Len(l) : l[j][2] = st}}

InitCli ==
    /\ IdleParse
    /\ IdleFetch
    /\ IdleRun
    /\ IdleSide
    /\ ledger = {}
    /\ deck = "A"
    /\ process_all = FALSE
    /\ runNo = 0
    /\ cidx = 0
    /\ pcCli = "idle"
    /\ log = <<>>
    /\ ledgerAtStart = {}
    /\ prev = None
    /\ prevDone = {}
    /\ exportedPairs = {}

\* a run starts, over the same source list, once the run before is through
StartCli(d, pa) ==
    /\ pcCli \in {"idle", "done"}
    /\ runNo < MaxRuns
    /\ runNo' = runNo + 1
    /\ deck' = d
    /\ process_all' = pa
    /\ cidx' = 1
    /\ pcCli' = "loop"
    /\ log' = <<>>
    /\ ledgerAtStart' = ledger
    /\ prev' = IF pcCli = "idle" THEN None ELSE <<deck, process_all>>
    /\ prevDone' = WithStep(log, "export") \cup WithStep(log, "skip")
    /\ UNCHANGED <<ledger, exportedPairs>>
    /\ UNCHANGED <<parseVars, fetchVars, runVars>>
    /\ UNCHANGED sideVars

\* one turn of the loop over the articles (cli.py:215-248)
CliProcess(f, g) ==
    /\ pcCli = "loop"
    /\ cidx <= Len(Articles)
    /\ cidx' = cidx + 1
    /\ LET ident == Articles[cidx]
           skip_if_processed == ~process_all
           is_processed == skip_if_processed /\ IsProcessed(ident, deck)
           looked == IF skip_if_processed THEN <<<<ident, "lookup">>>> ELSE <<>>
           fetched == ~FetchSkipped(skip_if_processed, is_processed)
           has_text == fetched /\ f = "text"
           has_cards == has_text /\ g = "cards"
       IN
       IF SkipsArticle(is_processed, process_all) THEN
           /\ log' = log \o looked
                         \o (IF fetched THEN <<<<ident, "fetch">>>> ELSE <<>>)
                         \o <<<<ident, "skip">>>>
           /\ UNCHANGED <<ledger, exportedPairs>>
       ELSE
           /\ log' = log \o looked
                         \o (IF fetched THEN <<<<ident, "fetch">>>> ELSE <<>>)
                         \o (IF has_text THEN <<<<ident, "generate">>>> ELSE <<>>)
                         \o (IF has_cards THEN <<<<ident, "export">>>>
                             ELSE <<<<ident, "nocards">>>>)
                         \o (IF MarkedWhen(has_cards) THEN <<<<ident, "mark">>>> ELSE <<>>)
           /\ exportedPairs' = IF has_cards THEN exportedPairs \cup {<<ident, deck>>}
                               ELSE exportedPairs
           /\ ledger' = IF MarkedWhen(has_cards) THEN ledger \cup LedgerEntry(ident, deck)
                        ELSE ledger
    /\ UNCHANGED <<deck, process_all, runNo, pcCli, ledgerAtStart, prev, prevDone>>
    /\ UNCHANGED <<parseVars, fetchVars, runVars>>
    /\ UNCHANGED sideVars

\* cli.py:250: "All articles processed."
CliFinish ==
    /\ pcCli = "loop"
    /\ cidx > Len(Articles)
    /\ pcCli' = "done"
    /\ UNCHANGED <<ledger, deck, process_all, runNo, cidx, log, ledgerAtStart, prev,
                   prevDone, exportedPairs>>
    /\ UNCHANGED <<parseVars, fetchVars, runVars>>
    /\ UNCHANGED sideVars

NextCli ==
    \/ \E d \in Decks, pa \in BOOLEAN : StartCli(d, pa)
    \/ \E f \in FetchOutcomes, g \in CliGenOutcomes : CliProcess(f, g)
    \/ CliFinish

SpecCli == InitCli /\ [][NextCli]_vars

\* the current run is an unforced run that follows an unforced run over the
\* same list with the same deck
SecondRun == prev # None /\ prev = <<deck, FALSE>> /\ ~process_all

\* the articles the current run took up
TakenUp == {log[k][1] : k \in 1..Len(log)}

\* the steps of step set S among those of ident
HasStep(ident, S) == \E k \in 1..Len(log) : log[k][1] = ident /\ log[k][2] \in S

C2_LedgerSkip ==
    ~process_all =>
        \A ident \in TakenUp :
            <<ident, deck>> \in ledgerAtStart =>
                /\ StepsOf(log, ident)[1] = "lookup"
                /\ ~HasStep(ident, {"fetch", "generate", "export", "mark"})

\* an unforced run that skipped a recorded article and processed another
C2_Witness ==
    /\ ~process_all
    /\ \E ident \in TakenUp :
          /\ <<ident, deck>> \in ledgerAtStart
          /\ StepsOf(log, ident) = <<"lookup", "skip">>
    /\ WithStep(log, "export") # {}

MaxElements == 2

\* the element has no id: t.has_attr("id") is false
Absent == <<"Absent">>

\* the element has no class: t.has_attr("class") is false
NoClass == <<>>

\* str.lower() on one token
LowerTok(c) == IF c = "Comment" THEN "comment" ELSE IF c = "F" THEN "f" ELSE c

\* str.lower()
Lower(s) == [i \in 1..Len(s) |-> LowerTok(s[i])]

\* "comment" in s.lower()
ContainsComment(s) == \E i \in 1..Len(s) : Lower(s)[i] = "comment"

\* the characters a token stands for
CharsOfTok(c) ==
    IF c = "comment" THEN <<"c", "o", "m", "m", "e", "n", "t">>
    ELSE IF c = "Comment" THEN <<"C", "o", "m", "m", "e", "n", "t">>
    ELSE IF c = "main" THEN <<"m", "a", "i", "n">>
    ELSE <<c>>

\* for x in s, s a str: the strings of one character each
RECURSIVE IterStr(_)
IterStr(s) ==
    IF s = <<>> THEN <<>>
    ELSE [i \in 1..Len(CharsOfTok(Head(s))) |-> <<CharsOfTok(Head(s))[i]>>] \o IterStr(Tail(s))

\* t["id"]: BeautifulSoup gives the id attribute as one string
Ids == {Absent, <<"main">>, <<"Comment", "s">>}

\* t["class"]: BeautifulSoup gives the class attribute as the list of the
\* class names
Classes == {NoClass, <<<<"post">>>>, <<<<"post">>, <<"comment", "-", "x">>>>}

Leaves == [id : Ids, class : Classes, children : {<<>>}]

Elements == [id : Ids, class : Classes, children : SeqsUpTo(Leaves, 1)]

\* doc.summary() parsed by BeautifulSoup
Documents == SeqsUpTo(Elements, MaxElements) \ {<<>>}

Digit(i) == IF i = 1 THEN "1" ELSE IF i = 2 THEN "2" ELSE "3"

\* the text of the i-th top-level element, and of its child
TopText(i) == <<"p", Digit(i)>>
ChildText(i) == <<"c", Digit(i)>>

\* articles.py:100: any("comment" in x.lower() for x in t["id"]), x going
\* over the characters of the id
IdMatchesArticles(el) ==
    el.id # Absent /\ \E j \in 1..Len(IterStr(el.id)) : ContainsComment(IterStr(el.id)[j])

\* articles-to-anki.py:67: "comment" in t["id"].lower()
IdMatchesLegacy(el) == el.id # Absent /\ ContainsComment(el.id)

\* any("comment" in x.lower() for x in t["class"])
ClassMatches(el) ==
    el.class # NoClass /\ \E j \in 1..Len(el.class) : ContainsComment(el.class[j])

\* the filter of soup.find_all
Matches(v, el) ==
    (IF v = "articles" THEN IdMatchesArticles(el) ELSE IdMatchesLegacy(el)) \/ ClassMatches(el)

\* the text nodes left, in document order, once every matching element is
\* decomposed with what it holds
RECURSIVE TextNodes(_, _, _)
TextNodes(v, doc, i) ==
    IF i > Len(doc) THEN <<>>
    ELSE (IF Matches(v, doc[i]) THEN <<>>
          ELSE <<TopText(i)>>
               \o (IF doc[i].children # <<>> /\ ~Matches(v, doc[i].children[1])
                   THEN <<ChildText(i)>> ELSE <<>>))
         \o TextNodes(v, doc, i + 1)

\* soup.get_text(separator="\n", strip=True) and the dropping of blank lines
ExtractText(v, doc) == DropBlankLines(Join(TextNodes(v, doc, 1), <<NL>>))

InitExtract ==
    /\ IdleParse
    /\ IdleRun
    /\ IdleCli
    /\ IdleDup
    /\ IdleStart
    /\ variant \in {"articles", "legacy"}
    /\ cache = <<>>
    /\ article = <<>>
    /\ call = <<>>
    /\ answers = <<>>
    /\ origin = <<>>
    /\ nFetch = 0
    /\ soup \in Documents
    /\ body = None
    /\ pcExtract = "parsed"

\* articles.py:97-107
ExtractArticles ==
    /\ variant = "articles"
    /\ pcExtract = "parsed"
    /\ body' = ExtractText("articles", soup)
    /\ pcExtract' = "extracted"
    /\ UNCHANGED soup
    /\ UNCHANGED <<parseVars, fetchVars, runVars, cliVars, dupVars, startVars>>

\* articles-to-anki.py:64-74
ExtractLegacy ==
    /\ variant = "legacy"
    /\ pcExtract = "parsed"
    /\ body' = ExtractText("legacy", soup)
    /\ pcExtract' = "extracted"
    /\ UNCHANGED soup
    /\ UNCHANGED <<parseVars, fetchVars, runVars, cliVars, dupVars, startVars>>

NextExtract == ExtractArticles \/ ExtractLegacy

SpecExtract == InitExtract /\ [][NextExtract]_vars

\* the id or a class name of the element contains "comment", in any case
HasCommentAttr(el) ==
    \/ el.id # Absent /\ ContainsComment(el.id)
    \/ el.class # NoClass /\ \E j \in 1..Len(el.class) : ContainsComment(el.class[j])

\* the lines of the extracted text
BodyLines == {SplitLines(body)[j] : j \in 1..Len(SplitLines(body))}

\* C14: the text of an element whose id or class contains "comment", and
\* of what such an element holds, is not in the extracted text; the text of
\* every other element is
C14_CommentStripping ==
    pcExtract = "extracted" =>
        \A i \in 1..Len(soup) :
            /\ TopText(i) \in BodyLines <=> ~HasCommentAttr(soup[i])
            /\ soup[i].children # <<>> =>
                  (ChildText(i) \in BodyLines
                     <=> (~HasCommentAttr(soup[i]) /\ ~HasCommentAttr(soup[i].children[1])))


\* ======================================================== duplicate filter
\* The exporter main of articles_to_anki/cli.py builds (cli.py:233-242).
\* Its ExportCards, with skip_duplicates and similarity_threshold, is not
\* among the sources (ExportCards of src/export_cards.py takes neither and
\* filters nothing); the filter follows section 4.5 of the specification.
\* Scores and thresholds are in hundredths.

\* most exports of a card in one behaviour
MaxExports == 3

\* the front texts: "F" is "f" in upper case
Fronts == {<<"f">>, <<"F">>, <<"g">>}

\* --similarity_threshold (0.0-1.0)
Thresholds == {0, 85, 100}

\* the score the similarity backend gives two texts that differ
Scores == {0, 90}

\* the score of two front texts: the highest for the same text
Similarity(a, b, s) == IF a = b THEN 100 ELSE s

\* the candidate is a duplicate of a card the deck has: the highest score
\* reaches the threshold; without a backend, the fronts are equal but for
\* case
IsDuplicate(front, existing, threshold, backend, s) ==
    IF backend THEN \E e \in existing : Similarity(front, e, s) >= threshold
    ELSE \E e \in existing : Lower(front) = Lower(e)

\* an exporter that is told never to skip
SkipDuplicatesNever(allow_duplicates) == FALSE

\* cli.py:239: skip_duplicates=(not args.allow_duplicates)
SkipDuplicates(allow_duplicates) == ~allow_duplicates

InitDup ==
    /\ IdleParse
    /\ IdleFetch
    /\ IdleRun
    /\ IdleCli
    /\ IdleExtract
    /\ IdleStart
    /\ deck_fronts = [d \in Decks |-> {}]
    /\ candidate = <<>>
    /\ nExports = 0

\* the export of one candidate card to deck d
ExportCard(d, front, allow_duplicates, threshold, backend, s) ==
    /\ nExports < MaxExports
    /\ nExports' = nExports + 1
    /\ LET dropped == /\ SkipDuplicates(allow_duplicates)
                       /\ IsDuplicate(front, deck_fronts[d], threshold, backend, s)
       IN
       /\ deck_fronts' = IF dropped THEN deck_fronts
                         ELSE [deck_fronts EXCEPT ![d] = @ \cup {front}]
       /\ candidate' = [deck |-> d, front |-> front,
                        allow_duplicates |-> allow_duplicates,
                        threshold |-> threshold, backend |-> backend,
                        existing |-> deck_fronts[d], delivered |-> ~dropped]
    /\ UNCHANGED <<parseVars, fetchVars, runVars, cliVars, extractVars, startVars>>

NextDup ==
    \E d \in Decks, front \in Fronts, allow_duplicates \in BOOLEAN,
       threshold \in Thresholds, backend \in BOOLEAN, s \in Scores :
        ExportCard(d, front, allow_duplicates, threshold, backend, s)

SpecDup == InitDup /\ [][NextDup]_vars

Configs ==
    {c \in [api_key : BOOLEAN, article_dir : BOOLEAN, urls_file : BOOLEAN,
            urls : BOOLEAN, local_files : BOOLEAN] :
        /\ c.urls_file => c.article_dir
        /\ c.urls => c.urls_file
        /\ c.local_files => c.article_dir}

\* the legacy script reads articles.txt of the working directory and has no
\* article directory
LegacyConfigs == {c \in Configs : c.article_dir /\ ~c.local_files}

\* what AnkiConnect answers to check_anki_note_model
\* CLOZE_MODEL_NAME and BASIC_MODEL_NAME
Templates == {"cloze", "basic"}

\* how a request ends: it goes through, it raises RequestException, or the
\* response carries an error and no result
CreateReplies == {"ok", "fails", "error"}

AnkiAnswers ==
    [query : CreateReplies, models : SUBSET Templates,
     create_cloze : CreateReplies, create_basic : CreateReplies]

\* one request to AnkiConnect: its action, the template it names, how it
\* ended, and the model names a modelNames response lists
Request(action, model, reply, models) ==
    [action |-> action, model |-> model, reply |-> reply, models |-> models]

\* a provisioning that goes on to the basic template after a createModel
\* request for the cloze template has raised
GoesOnAfterAlways(reply) == TRUE

\* check_anki_note_model goes on after a createModel request: neither
\* RequestException (caught at the end of the function) nor RuntimeError
GoesOnAfter(reply) == reply = "ok"

\* the createModel request for template m, when m is not in the list
CreateRequest(m, models, reply) ==
    IF m \in models THEN <<>> ELSE <<Request("createModel", m, reply, {})>>

\* input(...).strip().lower()
Answers == {"y", "n"}

InitStart ==
    /\ IdleParse
    /\ IdleFetch
    /\ IdleRun
    /\ IdleCli
    /\ IdleExtract
    /\ IdleDup
    /\ program \in {"cli", "main", "legacy"}
    /\ config \in IF program = "legacy" THEN LegacyConfigs ELSE Configs
    /\ config0 = config
    /\ start_to_file \in BOOLEAN
    /\ pcStart = "start"
    /\ model_requests = <<>>
    /\ work = {}

\* the requests of check_anki_note_model
ModelRequests(anki) ==
    IF anki.query # "ok" THEN <<Request("modelNames", "", anki.query, {})>>
    ELSE <<Request("modelNames", "", "ok", anki.models)>>
         \o CreateRequest("cloze", anki.models, anki.create_cloze)
         \o (IF "cloze" \in anki.models \/ GoesOnAfter(anki.create_cloze)
             THEN CreateRequest("basic", anki.models, anki.create_basic)
             ELSE <<>>)

\* check_anki_note_model raises: TypeError on a modelNames response
\* without a result ("..." not in None), RuntimeError on a createModel
\* response with an error
ModelRaises(anki) ==
    \/ anki.query = "error"
    \/ /\ anki.query = "ok"
       /\ \/ "cloze" \notin anki.models /\ anki.create_cloze = "error"
          \/ /\ "cloze" \in anki.models \/ GoesOnAfter(anki.create_cloze)
             /\ "basic" \notin anki.models /\ anki.create_basic = "error"

\* check_config of cli.py does not raise
ConfigComplete(c) == c.api_key /\ c.article_dir /\ c.urls_file

\* cli.py:183-186: check_anki_note_model() unless --to_file, then
\* check_config()
CliStartRun(anki) ==
    /\ program = "cli"
    /\ pcStart = "start"
    /\ model_requests' = IF start_to_file THEN <<>> ELSE ModelRequests(anki)
    /\ pcStart' = IF ~start_to_file /\ ModelRaises(anki) THEN "error"
                  ELSE IF ConfigComplete(config) THEN "checked" ELSE "error"
    /\ UNCHANGED <<program, config, config0, start_to_file, work>>
    /\ UNCHANGED <<parseVars, fetchVars, runVars, cliVars, extractVars, dupVars>>

\* main.py:7-36: check_config()
MainCheckConfig(answer) ==
    /\ program = "main"
    /\ pcStart = "start"
    /\ IF ~config.api_key THEN
           \* ValueError
           pcStart' = "error" /\ UNCHANGED config
       ELSE IF ~config.article_dir THEN
           IF answer # "y" THEN pcStart' = "error" /\ UNCHANGED config
           ELSE \* os.makedirs(ARTICLE_DIR); return
                /\ config' = [config EXCEPT !.article_dir = TRUE]
                /\ pcStart' = "checked"
       ELSE IF ~config.urls_file THEN
           IF answer # "y" THEN pcStart' = "error" /\ UNCHANGED config
           ELSE \* the file is created with a comment line; return
                /\ config' = [config EXCEPT !.urls_file = TRUE]
                /\ pcStart' = "checked"
       ELSE pcStart' = "checked" /\ UNCHANGED config
    /\ UNCHANGED <<program, config0, start_to_file, model_requests, work>>
    /\ UNCHANGED <<parseVars, fetchVars, runVars, cliVars, extractVars, dupVars>>

\* main.py:67-76, cli.py:188-213: the source list is read, the article
\* files are listed; without either the run returns
ReadSources ==
    /\ program \in {"cli", "main"}
    /\ pcStart = "checked"
    /\ pcStart' = IF ~config.urls_file THEN "error"
                  ELSE IF ~config.urls /\ ~config.local_files THEN "done"
                  ELSE "loop"
    /\ UNCHANGED <<program, config, config0, start_to_file, model_requests, work>>
    /\ UNCHANGED <<parseVars, fetchVars, runVars, cliVars, extractVars, dupVars>>

\* articles-to-anki.py:231-240: the key is tested, the source list opened
LegacyStartRun ==
    /\ program = "legacy"
    /\ pcStart = "start"
    /\ pcStart' = IF ~config.api_key \/ ~config.urls_file THEN "error"
                  ELSE IF ~config.urls THEN "done"
                  ELSE "loop"
    /\ UNCHANGED <<program, config, config0, start_to_file, model_requests, work>>
    /\ UNCHANGED <<parseVars, fetchVars, runVars, cliVars, extractVars, dupVars>>

\* the loop over the articles: they are fetched, cards are requested and
\* exported
ProcessArticles ==
    /\ pcStart = "loop"
    /\ work' = {"fetch", "completion", "export"}
    /\ model_requests' = IF start_to_file THEN model_requests
                         ELSE Append(model_requests, Request("addNote", "", "ok", {}))
    /\ pcStart' = "done"
    /\ UNCHANGED <<program, config, config0, start_to_file>>
    /\ UNCHANGED <<parseVars, fetchVars, runVars, cliVars, extractVars, dupVars>>

NextStart ==
    \/ \E anki \in AnkiAnswers : CliStartRun(anki)
    \/ \E answer \in Answers : MainCheckConfig(answer)
    \/ ReadSources
    \/ LegacyStartRun
    \/ ProcessArticles

SpecStart == InitStart /\ [][NextStart]_vars

\* the run found the credential, the article directory or the source list
\* file missing
Missing == ~config0.api_key \/ ~config0.article_dir \/ ~config0.urls_file

\* C17: a run that finds the credential, the article directory or the
\* source list file missing ends with an error before anything is done for
\* an article: it does not reach the loop, nor ends without an error, and
\* nothing is fetched, requested or exported
C17_ConfigErrorsFatal ==
    Missing => (work = {} /\ pcStart \notin {"loop", "done"})

\* the positions of the requests with the action, for the template m
Sent(action, m) ==
    {i \in 1..Len(model_requests) :
        model_requests[i].action = action /\ model_requests[i].model = m}

\* the requests about templates
TemplateRequests == Sent("modelNames", "") \cup Sent("createModel", "cloze")
                    \cup Sent("createModel", "basic")

\* a run of cli.py that is past check_anki_note_model
Provisioned == program = "cli" /\ pcStart # "start"

\* in RPC mode the templates are queried once, first of all requests, and
\* every addNote request comes after the requests about templates; in file
\* mode there is no request about templates
QueriedFirst ==
    IF start_to_file THEN TemplateRequests = {}
    ELSE /\ Sent("modelNames", "") = {1}
         /\ \A i \in Sent("addNote", "") : \A j \in TemplateRequests : j < i

\* the model names the query listed
Listed == model_requests[1].models

\* C21 as stated: before the first addNote request of a run in RPC mode the
\* templates are queried once, and a createModel request is sent for the
\* cloze template exactly when the list lacks it and for the basic template
\* exactly when the list lacks it; in file mode no request about templates
\* is sent
C21_CreatedExactlyWhenAbsent ==
    Provisioned =>
        /\ QueriedFirst
        /\ (~start_to_file /\ model_requests[1].reply = "ok") =>
              \A m \in Templates :
                  Cardinality(Sent("createModel", m)) = IF m \in Listed THEN 0 ELSE 1

\* C21: before the first addNote request of a run in RPC mode the templates
\* are queried once; when the query fails no createModel request is sent;
\* when it goes through, one is sent for the cloze template exactly when
\* the list lacks it, and one for the basic template exactly when the list
\* lacks it and the cloze template was listed or its creation went through;
\* a listed template is never created; in file mode no request about
\* templates is sent
C21_TemplateProvisioning ==
    Provisioned =>
        /\ QueriedFirst
        /\ (~start_to_file /\ model_requests[1].reply # "ok") =>
              \A m \in Templates : Sent("createModel", m) = {}
        /\ (~start_to_file /\ model_requests[1].reply = "ok") =>
              /\ Cardinality(Sent("createModel", "cloze"))
                    = IF "cloze" \in Listed THEN 0 ELSE 1
              /\ Cardinality(Sent("createModel", "basic"))
                    = IF /\ "basic" \notin Listed
                         /\ \/ "cloze" \in Listed
                            \/ \E i \in Sent("createModel", "cloze") :
                                  model_requests[i].reply = "ok"
                      THEN 1 ELSE 0

\* a run in RPC mode that found neither template, created both and went on
\* to send an addNote request
C21_Witness ==
    /\ program = "cli" /\ ~start_to_file /\ pcStart = "done"
    /\ Len(model_requests) = 4
    /\ Listed = {}
    /\ model_requests[2].action = "createModel" /\ model_requests[2].model = "cloze"
    /\ model_requests[3].action = "createModel" /\ model_requests[3].model = "basic"
    /\ model_requests[4].action = "addNote"

=============================================================================
